---- MODULE Spec2Model ----
(***************************************************************************)
(* A model of tc4400_exporter: the HTML table extractor (parseTables and   *)
(* parseTable), the row decoders of Exporter.scrape, and Exporter.Collect  *)
(* with its mutex.                                                         *)
(*                                                                         *)
(* Strings are sequences of one-character strings, so that TrimSpace,      *)
(* Split, ParseInt and ParseFloat are computed and not assumed.            *)
(***************************************************************************)
EXTENDS Integers, Sequences, FiniteSets, Bags, TLC

VARIABLES
    doc,        \* the parsed document tree handed to parseTables
    tables,     \* what parseTables returned
    found,      \* history: the table nodes parseTables appended, in order
    ppc,        \* "start" before parseTables ran, "done" after
    baseURL,    \* Exporter.baseURL: "valid" when url.Parse accepts it
    device,     \* what the modem answers for each of the two pages
    mutex,      \* Exporter.mutex: its holder, or 0
    pc,         \* where each Collect call stands
    body,       \* each Collect call's last fetch result (body, err)
    ch,         \* the metrics each Collect call has sent on its channel
    totalScrapes,
    parseFailures,
    clientRequestCount

parseVars == <<doc, tables, found, ppc>>
pollVars == <<baseURL, device, mutex, pc, body, ch, totalScrapes,
              parseFailures, clientRequestCount>>
vars == <<parseVars, pollVars>>

(***************************************************************************)
(* Bounds of the model.                                                    *)
(***************************************************************************)
\* nodes below <body> in a general document
MaxNodes == 5
\* nodes inside the one cell of a single-cell document
MaxCell == 4

(***************************************************************************)
(* The document tree (golang.org/x/net/html's Node).  A document is the    *)
(* sequence of its nodes in document (depth-first pre-order) order, each   *)
(* with its depth; Parent, FirstChild and NextSibling follow from that.    *)
(* html.Parse always yields #document > html > (head, body).               *)
(***************************************************************************)
Nil == 0
DocNode == 1

Node(tag, depth, data) == [tag |-> tag, depth |-> depth, data |-> data]

Skeleton ==
    << Node("#document", 0, <<>>), Node("html", 1, <<>>),
       Node("head", 2, <<>>), Node("body", 2, <<>>) >>

Min(S) == CHOOSE x \in S : \A y \in S : x <= y
Max(S) == CHOOSE x \in S : \A y \in S : x >= y

Parent(d, n) ==
    LET up == {j \in 1..(n - 1) : d[j].depth = d[n].depth - 1}
    IN  IF up = {} THEN Nil ELSE Max(up)

FirstChild(d, n) ==
    IF n < Len(d) /\ d[n + 1].depth = d[n].depth + 1 THEN n + 1 ELSE Nil

NextSibling(d, n) ==
    LET after == {j \in (n + 1)..Len(d) : d[j].depth <= d[n].depth}
    IN  IF after = {} THEN Nil
        ELSE IF d[Min(after)].depth = d[n].depth THEN Min(after) ELSE Nil

IsElement(d, n, tags) == d[n].tag \in tags
IsText(d, n) == d[n].tag = "#text"

\* the children of a node, by the FirstChild / NextSibling chain
RECURSIVE SiblingChain(_, _)
SiblingChain(d, n) ==
    IF n = Nil THEN <<>> ELSE <<n>> \o SiblingChain(d, NextSibling(d, n))

Children(d, n) == SiblingChain(d, FirstChild(d, n))

\* the nodes of the subtree below n, in document order
Descendants(d, n) ==
    LET stop == {j \in (n + 1)..Len(d) : d[j].depth <= d[n].depth}
        last == IF stop = {} THEN Len(d) ELSE Min(stop) - 1
    IN  [k \in 1..(last - n) |-> n + k]

(***************************************************************************)
(* strings.TrimSpace                                                       *)
(***************************************************************************)
WhiteSpace == {" ", "\t", "\n", "\r"}

RECURSIVE TrimLeft(_)
TrimLeft(s) ==
    IF s # <<>> /\ Head(s) \in WhiteSpace THEN TrimLeft(Tail(s)) ELSE s

RECURSIVE TrimRight(_)
TrimRight(s) ==
    IF s # <<>> /\ s[Len(s)] \in WhiteSpace
    THEN TrimRight(SubSeq(s, 1, Len(s) - 1)) ELSE s

TrimSpace(s) == TrimRight(TrimLeft(s))

(***************************************************************************)
(* parseTable: the content loop of one cell (lines 63-84), then the cell,  *)
(* row and body loops.                                                     *)
(***************************************************************************)
RECURSIVE CellContent(_, _, _, _)
CellContent(d, cellNode, contentNode, buf) ==
    IF contentNode = Nil THEN buf
    ELSE IF ~IsText(d, contentNode) /\ FirstChild(d, contentNode) # Nil
    THEN CellContent(d, cellNode, FirstChild(d, contentNode), buf)
    ELSE LET buf2 == IF IsText(d, contentNode)
                     THEN buf \o d[contentNode].data ELSE buf
         IN  IF NextSibling(d, contentNode) # Nil
             THEN CellContent(d, cellNode, NextSibling(d, contentNode), buf2)
             ELSE IF Parent(d, contentNode) # cellNode
             THEN CellContent(d, cellNode,
                              NextSibling(d, Parent(d, contentNode)), buf2)
             ELSE buf2

CellText(d, cellNode) ==
    TrimSpace(CellContent(d, cellNode, FirstChild(d, cellNode), <<>>))

\* the elements of a sequence of nodes that carry one of the tags
RECURSIVE Keep(_, _, _)
Keep(d, ns, tags) ==
    IF ns = <<>> THEN <<>>
    ELSE (IF IsElement(d, Head(ns), tags) THEN <<Head(ns)>> ELSE <<>>)
         \o Keep(d, Tail(ns), tags)

RECURSIVE Flatten(_)
Flatten(ss) == IF ss = <<>> THEN <<>> ELSE Head(ss) \o Flatten(Tail(ss))

RowNodes(d, tableNode) ==
    LET bodies == Keep(d, Children(d, tableNode), {"thead", "tbody"})
    IN  Flatten([b \in 1..Len(bodies) |->
                    Keep(d, Children(d, bodies[b]), {"tr"})])

CellNodes(d, rowNode) == Keep(d, Children(d, rowNode), {"th", "td"})

parseTable(d, tableNode) ==
    LET rows == RowNodes(d, tableNode)
    IN  [r \in 1..Len(rows) |->
            LET cells == CellNodes(d, rows[r])
            IN  [c \in 1..Len(cells) |-> CellText(d, cells[c])]]

(***************************************************************************)
(* parseTables: the walk over the tree (lines 19-35), as the sequence of   *)
(* table nodes it appends.                                                 *)
(***************************************************************************)
RECURSIVE TableWalk(_, _, _)
TableWalk(d, n, acc) ==
    IF ~IsElement(d, n, {"table"}) /\ FirstChild(d, n) # Nil
    THEN TableWalk(d, FirstChild(d, n), acc)
    ELSE LET acc2 == IF IsElement(d, n, {"table"}) THEN Append(acc, n) ELSE acc
         IN  IF NextSibling(d, n) # Nil
             THEN TableWalk(d, NextSibling(d, n), acc2)
             ELSE IF Parent(d, n) # DocNode /\ NextSibling(d, Parent(d, n)) # Nil
             THEN TableWalk(d, NextSibling(d, Parent(d, n)), acc2)
             ELSE acc2

parseTables(d) ==
    LET ns == TableWalk(d, DocNode, <<>>)
    IN  [k \in 1..Len(ns) |-> parseTable(d, ns[k])]

(***************************************************************************)
(* strconv.ParseInt(s, 10, 64), strconv.ParseFloat(s, 64),                 *)
(* strings.Split(s, " ") and fmt.Sprintf("%02d", n), on strings of the     *)
(* model's alphabet (digits, sign, point, space, letters).  The numbers of *)
(* the model stay far below 2^63, so ParseInt's range error does not       *)
(* arise.  A float is m * 10^(-e), normalised.                             *)
(***************************************************************************)
DigitChars == <<"0", "1", "2", "3", "4", "5", "6", "7", "8", "9">>

IsDigit(c) == \E k \in 1..10 : DigitChars[k] = c
DigitValue(c) == (CHOOSE k \in 1..10 : DigitChars[k] = c) - 1

AllDigits(s) == \A k \in 1..Len(s) : IsDigit(s[k])

RECURSIVE DecimalValue(_)
DecimalValue(s) ==
    IF s = <<>> THEN 0
    ELSE 10 * DecimalValue(SubSeq(s, 1, Len(s) - 1)) + DigitValue(s[Len(s)])

Unsigned(s) == IF s # <<>> /\ Head(s) \in {"+", "-"} THEN Tail(s) ELSE s
Sign(s) == IF s # <<>> /\ Head(s) = "-" THEN -1 ELSE 1

\* (value, err): err # nil when the string is not [+-]digits
ParseInt(s) ==
    IF Unsigned(s) # <<>> /\ AllDigits(Unsigned(s))
    THEN [ok |-> TRUE, val |-> Sign(s) * DecimalValue(Unsigned(s))]
    ELSE [ok |-> FALSE, val |-> 0]

RECURSIVE Normalise(_, _)
Normalise(m, e) ==
    IF e > 0 /\ m % 10 = 0 THEN Normalise(m \div 10, e - 1) ELSE [m |-> m, e |-> e]

Float64(n) == [m |-> n, e |-> 0]

\* (value, err): decimal digits with at most one point and at least one digit
ParseFloat(s) ==
    LET u == Unsigned(s)
        points == {k \in 1..Len(u) : u[k] = "."}
        digits == SelectSeq(u, IsDigit)
    IN  IF /\ Cardinality(points) <= 1
           /\ digits # <<>>
           /\ \A k \in 1..Len(u) : IsDigit(u[k]) \/ u[k] = "."
        THEN [ok |-> TRUE,
              val |-> Normalise(Sign(s) * DecimalValue(digits),
                                IF points = {} THEN 0
                                ELSE Len(u) - (CHOOSE k \in points : TRUE))]
        ELSE [ok |-> FALSE, val |-> Float64(0)]

RECURSIVE Split(_)
Split(s) ==
    LET spaces == {k \in 1..Len(s) : s[k] = " "}
    IN  IF spaces = {} THEN <<s>>
        ELSE <<SubSeq(s, 1, Min(spaces) - 1)>>
             \o Split(SubSeq(s, Min(spaces) + 1, Len(s)))

RECURSIVE Digits(_)
Digits(n) ==
    IF n < 10 THEN <<DigitChars[n + 1]>>
    ELSE Digits(n \div 10) \o <<DigitChars[(n % 10) + 1]>>

Sprintf02d(n) ==
    IF n < 0 THEN <<"-">> \o Digits(-n)
    ELSE IF n < 10 THEN <<"0">> \o Digits(n)
    ELSE Digits(n)

(***************************************************************************)
(* The metric descriptors, by column.                                      *)
(***************************************************************************)
networkMetrics ==
    [i \in 1..8 |->
        <<"tc4400_network_receive_bytes_total",
          "tc4400_network_receive_packets_total",
          "tc4400_network_receive_errs_total",
          "tc4400_network_receive_drop_total",
          "tc4400_network_transmit_bytes_total",
          "tc4400_network_transmit_packets_total",
          "tc4400_network_transmit_errs_total",
          "tc4400_network_transmit_drop_total">>[i]]

downstreamChannelMetrics ==
    [i \in 2..12 |->
        <<"tc4400_downstream_locked",
          "tc4400_downstream_channel_type",
          "tc4400_downstream_bonded",
          "tc4400_downstream_center_frequency_hz",
          "tc4400_downstream_width_hz",
          "tc4400_downstream_snr_threshold_db",
          "tc4400_downstream_receive_level_dbmv",
          "tc4400_downstream_modulation",
          "tc4400_downstream_codewords_unerrored_total",
          "tc4400_downstream_codewords_corrected_total",
          "tc4400_downstream_codewords_uncorrectable_total">>[i - 1]]

upstreamChannelMetrics ==
    [i \in 2..8 |->
        <<"tc4400_upstream_locked",
          "tc4400_upstream_channel_type",
          "tc4400_upstream_bonded",
          "tc4400_upstream_center_frequency_hz",
          "tc4400_upstream_width_hz",
          "tc4400_upstream_transmit_level_dbmv",
          "tc4400_upstream_modulation">>[i - 1]]

targetUpMetric == "tc4400_up"

Range(f) == {f[x] : x \in DOMAIN f}

(***************************************************************************)
(* String literals of the code.                                            *)
(***************************************************************************)
StrLocked == <<"L", "o", "c", "k", "e", "d">>
StrBonded == <<"B", "o", "n", "d", "e", "d">>
StrHz == <<"H", "z">>
StrkHz == <<"k", "H", "z">>
StrdB == <<"d", "B">>
StrdBmV == <<"d", "B", "m", "V">>

(***************************************************************************)
(* Go's indexing: row[i] and t[2:] count from 0 and panic out of range.    *)
(* At and SliceFrom are total; InRange and SliceInRange say whether the    *)
(* Go expression panics.                                                   *)
(***************************************************************************)
InRange(s, i) == i >= 0 /\ i < Len(s)
At(s, i) == IF InRange(s, i) THEN s[i + 1] ELSE <<>>
SliceInRange(s, lo) == lo <= Len(s)
SliceFrom(s, lo) == SubSeq(s, lo + 1, Len(s))

(***************************************************************************)
(* One column of one row.  A column result is a metric sent ("emit"), a    *)
(* counted failure ("fail": log.Errorln and parseFailures.Inc), or a bare  *)
(* continue ("skip").                                                      *)
(***************************************************************************)
Metric(name, value, labelValues) ==
    [name |-> name, value |-> value, labels |-> labelValues]

Emit(name, value, labelValues) ==
    [kind |-> "emit", metric |-> Metric(name, value, labelValues)]
Fail == [kind |-> "fail"]
Skip == [kind |-> "skip"]

\* ParseInt of the whole cell (network 1-8, downstream 10-12)
IntColumn(name, cell, labelValues) ==
    LET r == ParseInt(cell)
    IN  IF r.ok THEN Emit(name, Float64(r.val), labelValues) ELSE Fail

\* cell == expected ? 1 : 0 (columns 2 and 4)
EqualsColumn(name, cell, expected, labelValues) ==
    Emit(name, Float64(IF cell = expected THEN 1 ELSE 0), labelValues)

\* the cell becomes a second label value (columns 3, and 9 or 8)
LabelColumn(name, cell, labelValues) ==
    Emit(name, Float64(1), Append(labelValues, cell))

\* "<integer> Hz" or "<integer> kHz" (columns 5 and 6)
HertzColumn(name, cell, labelValues) ==
    LET parts == Split(cell)
    IN  IF Len(parts) # 2 THEN Skip
        ELSE LET r == ParseInt(parts[1])
             IN  IF parts[2] \notin {StrHz, StrkHz} THEN Skip
                 ELSE IF ~r.ok THEN Fail
                 ELSE Emit(name,
                           Float64(IF parts[2] = StrkHz THEN r.val * 1000 ELSE r.val),
                           labelValues)

\* "<float> <unit>" (downstream 7 and 8, upstream 7)
UnitFloatColumn(name, cell, unit, labelValues) ==
    LET parts == Split(cell)
    IN  IF Len(parts) # 2 \/ parts[2] # unit THEN Skip
        ELSE LET r == ParseFloat(parts[1])
             IN  IF r.ok THEN Emit(name, r.val, labelValues) ELSE Fail

NetworkColumn(row, i) ==
    IntColumn(networkMetrics[i], At(row, i), <<At(row, 0)>>)

DownstreamColumn(row, i, channelLabel) ==
    LET name == downstreamChannelMetrics[i]
        cell == At(row, i)
        labelValues == <<channelLabel>>
    IN  CASE i \in {10, 11, 12} -> IntColumn(name, cell, labelValues)
          [] i = 2 -> EqualsColumn(name, cell, StrLocked, labelValues)
          [] i \in {3, 9} -> LabelColumn(name, cell, labelValues)
          [] i = 4 -> EqualsColumn(name, cell, StrBonded, labelValues)
          [] i \in {5, 6} -> HertzColumn(name, cell, labelValues)
          [] i = 7 -> UnitFloatColumn(name, cell, StrdB, labelValues)
          [] i = 8 -> UnitFloatColumn(name, cell, StrdBmV, labelValues)
          [] OTHER -> Skip

UpstreamColumn(row, i, channelLabel) ==
    LET name == upstreamChannelMetrics[i]
        cell == At(row, i)
        labelValues == <<channelLabel>>
    IN  CASE i = 2 -> EqualsColumn(name, cell, StrLocked, labelValues)
          [] i \in {3, 8} -> LabelColumn(name, cell, labelValues)
          [] i = 4 -> EqualsColumn(name, cell, StrBonded, labelValues)
          [] i \in {5, 6} -> HertzColumn(name, cell, labelValues)
          [] i = 7 -> UnitFloatColumn(name, cell, StrdBmV, labelValues)
          [] OTHER -> Skip

(***************************************************************************)
(* One row, and the rows of one table.  A result is the bag of metrics     *)
(* sent (the order of a Go map's iteration is not fixed, so no order is    *)
(* kept), the number of parseFailures increments, and whether an index     *)
(* was out of range.                                                       *)
(***************************************************************************)
Result(obs, fails, panic) == [obs |-> obs, fails |-> fails, panic |-> panic]
NoResult == Result(EmptyBag, 0, FALSE)

Plus(a, b) == Result(a.obs (+) b.obs, a.fails + b.fails, a.panic \/ b.panic)

\* the columns of a row, from the column results cols[i]
Columns(row, cols) ==
    Result(SetToBag({cols[i].metric : i \in {j \in DOMAIN cols : cols[j].kind = "emit"}}),
           Cardinality({i \in DOMAIN cols : cols[i].kind = "fail"}),
           \E i \in DOMAIN cols \cup {0} : ~InRange(row, i))

NetworkWidth == 9
DownstreamWidth == 13
UpstreamWidth == 9

NetworkRow(row) ==
    IF Len(row) # NetworkWidth THEN NoResult
    ELSE Columns(row, [i \in DOMAIN networkMetrics |-> NetworkColumn(row, i)])

\* DownstreamRow with the width test len(row) < 13
DownstreamRowAtLeast(row) ==
    IF Len(row) < DownstreamWidth THEN NoResult
    ELSE LET channel == ParseInt(At(row, 1))
         IN  IF ~channel.ok THEN Result(EmptyBag, 1, ~InRange(row, 1))
             ELSE Columns(row, [i \in DOMAIN downstreamChannelMetrics |->
                                  DownstreamColumn(row, i, Sprintf02d(channel.val))])

DownstreamRow(row) ==
    IF Len(row) # DownstreamWidth THEN NoResult
    ELSE LET channel == ParseInt(At(row, 1))
         IN  IF ~channel.ok THEN Result(EmptyBag, 1, ~InRange(row, 1))
             ELSE Columns(row, [i \in DOMAIN downstreamChannelMetrics |->
                                  DownstreamColumn(row, i, Sprintf02d(channel.val))])

\* UpstreamRow with the error of the channel's ParseInt dropped
UpstreamRowKeyUnchecked(row) ==
    IF Len(row) # UpstreamWidth THEN NoResult
    ELSE LET channel == ParseInt(At(row, 1))
         IN  Columns(row, [i \in DOMAIN upstreamChannelMetrics |->
                              UpstreamColumn(row, i, Sprintf02d(channel.val))])

UpstreamRow(row) ==
    IF Len(row) # UpstreamWidth THEN NoResult
    ELSE LET channel == ParseInt(At(row, 1))
         IN  IF ~channel.ok THEN Result(EmptyBag, 1, ~InRange(row, 1))
             ELSE Columns(row, [i \in DOMAIN upstreamChannelMetrics |->
                                  UpstreamColumn(row, i, Sprintf02d(channel.val))])

RECURSIVE NetworkRows(_)
NetworkRows(rows) ==
    IF rows = <<>> THEN NoResult
    ELSE Plus(NetworkRow(Head(rows)), NetworkRows(Tail(rows)))

RECURSIVE DownstreamRows(_)
DownstreamRows(rows) ==
    IF rows = <<>> THEN NoResult
    ELSE Plus(DownstreamRow(Head(rows)), DownstreamRows(Tail(rows)))

RECURSIVE UpstreamRows(_)
UpstreamRows(rows) ==
    IF rows = <<>> THEN NoResult
    ELSE Plus(UpstreamRow(Head(rows)), UpstreamRows(Tail(rows)))

\* rows skipped at the head of each decoded table: tables[k][2:]
SkipRows == 2

\* DataRows with the slice t[1:]
DataRowsFromOne(t) == SliceFrom(t, 1)

\* for _, row := range t[2:]
DataRows(t) == SliceFrom(t, SkipRows)
Sliced(t, r) == Result(r.obs, r.fails, r.panic \/ ~SliceInRange(t, SkipRows))

(***************************************************************************)
(* The two pages of scrape, from the tables parseTables returned.          *)
(***************************************************************************)
StatsTooSmall(tbls) == Len(tbls) < 1 \/ Len(At(tbls, 0)) < 2

CmTooSmall(tbls) ==
    Len(tbls) < 3 \/ Len(At(tbls, 1)) < 2 \/ Len(At(tbls, 2)) < 2

scrapeStats(tbls) ==
    IF StatsTooSmall(tbls) THEN Result(EmptyBag, 1, FALSE)
    ELSE LET r == Sliced(At(tbls, 0), NetworkRows(DataRows(At(tbls, 0))))
         IN  Result(r.obs, r.fails, r.panic \/ ~InRange(tbls, 0))

\* scrapeCm that decodes a downstream table it finds although the page is
\* below its minimum
scrapeCmPartial(tbls) ==
    IF CmTooSmall(tbls)
    THEN IF Len(tbls) >= 2 /\ Len(At(tbls, 1)) >= 2
         THEN Plus(Result(EmptyBag, 1, FALSE), DownstreamRows(DataRows(At(tbls, 1))))
         ELSE Result(EmptyBag, 1, FALSE)
    ELSE Plus(Sliced(At(tbls, 1), DownstreamRows(DataRows(At(tbls, 1)))),
              Sliced(At(tbls, 2), UpstreamRows(DataRows(At(tbls, 2)))))

scrapeCm(tbls) ==
    IF CmTooSmall(tbls) THEN Result(EmptyBag, 1, FALSE)
    ELSE LET r == Plus(Sliced(At(tbls, 1), DownstreamRows(DataRows(At(tbls, 1)))),
                       Sliced(At(tbls, 2), UpstreamRows(DataRows(At(tbls, 2)))))
         IN  Result(r.obs, r.fails,
                    r.panic \/ ~InRange(tbls, 1) \/ ~InRange(tbls, 2))

(***************************************************************************)
(* Bounds of the poll model.                                               *)
(***************************************************************************)
\* concurrent Collect calls
NumProcs == 2
\* polls per behaviour
MaxPolls == 2
\* rows after the two leading rows of a decoded table
MaxData == 2

Procs == 1..NumProcs

(***************************************************************************)
(* The modem's answers.  A page that is fetched and parsed is held as the  *)
(* tables parseTables extracts from it (cells are trimmed).                *)
(***************************************************************************)
Files == {"statsifc.html", "cmconnectionstatus.html"}
Codes == {200, 404, 500}

OkResp(tbls) == [kind |-> "ok", code |-> 200, tables |-> tbls]
\* 200, but the body cannot be read to its end: html.Parse returns an error
ReadErrResp == [kind |-> "readerr", code |-> 200, tables |-> <<>>]
StatusResp(code) == [kind |-> "status", code |-> code, tables |-> <<>>]
\* no HTTP response: connection refused, client timeout
TransportResp == [kind |-> "transport", code |-> 0, tables |-> <<>>]

\* a copy of row with column i (from 0) set to cell
With(row, i, cell) == [row EXCEPT ![i + 1] = cell]

RECURSIVE WithAll(_, _)
WithAll(row, alts) ==
    IF alts = {} THEN row
    ELSE LET a == CHOOSE x \in alts : TRUE
         IN  WithAll(With(row, a[1], a[2]), alts \ {a})

HeaderRow == << <<"h">> >>

GoodNetworkRow ==
    << <<"e", "t", "h">>, <<"1", "0">>, <<"2">>, <<"3">>, <<"4">>,
       <<"5">>, <<"6">>, <<"7">>, <<"8">> >>

NetworkAlts ==
    { <<1, <<"x">>>>, <<3, <<"-", "4">>>>, <<8, <<>>>> }

GoodDownstreamRow ==
    << <<>>, <<"1">>, StrLocked, <<"Q">>, StrBonded,
       <<"6", "0", "3", " ">> \o StrHz, <<"6", " ">> \o StrkHz,
       <<"3", "5", " ">> \o StrdB, <<"3", ".", "5", " ">> \o StrdBmV,
       <<"P">>, <<"1", "0", "0">>, <<"2">>, <<"0">> >>

DownstreamAlts ==
    { <<1, <<"x">>>>,
      <<2, <<"U">>>>,
      <<5, <<"5", " ", "M", "H", "z">>>>,
      <<5, <<"6", "0", "3">>>>,
      <<5, <<"x", " ">> \o StrHz>>,
      <<6, <<"6", " ", " ">> \o StrkHz>>,
      <<6, <<"x", " ", "G", "H", "z">>>>,
      <<7, <<"3", "5", " ">> \o StrdBmV>>,
      <<7, <<"x", " ">> \o StrdB>>,
      <<8, <<"-", "1", ".", "5", "0", " ">> \o StrdBmV>>,
      <<10, <<"x">>>>,
      <<12, <<>>>> }

\* a bad row key in front of cells that would otherwise fail too
DownstreamBadKeyAlts == { <<1, <<>>>>, <<10, <<"x">>>>, <<7, <<"x", " ">> \o StrdB>> }
\* several failing cells in one row
DownstreamManyAlts ==
    { <<5, <<"x", " ">> \o StrkHz>>, <<8, <<".", " ">> \o StrdBmV>>, <<11, <<"1", "x">>>> }

GoodUpstreamRow ==
    << <<>>, <<"2">>, StrLocked, <<"S">>, StrBonded,
       <<"3", "0", " ">> \o StrkHz, <<"6", " ">> \o StrHz,
       <<"4", ".", "5", " ">> \o StrdBmV, <<"P">> >>

UpstreamAlts ==
    { <<1, <<"x">>>>,
      <<4, <<"U">>>>,
      <<5, <<"5", " ", "M", "H", "z">>>>,
      <<5, <<"x", " ">> \o StrkHz>>,
      <<6, <<"6">>>>,
      <<7, <<"4", ".", "5", " ">> \o StrdB>>,
      <<7, <<"x", " ">> \o StrdBmV>> }

UpstreamManyAlts ==
    { <<6, <<"x", " ">> \o StrHz>>, <<7, <<"4", ".", ".", " ">> \o StrdBmV>> }

\* the rows of a table kind: the good row, the good row with one cell
\* changed, rows with several cells changed, and rows of other widths
RowsOf(good, alts, many) ==
    {good} \cup {With(good, a[1], a[2]) : a \in alts}
           \cup {WithAll(good, m) : m \in many}
           \cup {<<>>, SubSeq(good, 1, Len(good) - 1), Append(good, <<"9">>)}

NetworkRowSet ==
    RowsOf(GoodNetworkRow, NetworkAlts, {NetworkAlts}) \cup {GoodDownstreamRow}
DownstreamRowSet ==
    RowsOf(GoodDownstreamRow, DownstreamAlts,
           {DownstreamBadKeyAlts, DownstreamManyAlts}) \cup {GoodUpstreamRow}
UpstreamRowSet ==
    RowsOf(GoodUpstreamRow, UpstreamAlts, {UpstreamManyAlts}) \cup {GoodDownstreamRow}

\* the rows that are combined into tables of several data rows: the good
\* row, rows of other widths, a row with a bad key, a row with a cell the
\* decoder counts and a row with a cell it passes over
NetworkCoreRows ==
    RowsOf(GoodNetworkRow, { <<1, <<"x">>>> }, {})
DownstreamCoreRows ==
    RowsOf(GoodDownstreamRow,
           { <<1, <<"x">>>>, <<5, <<"5", " ", "M", "H", "z">>>>, <<10, <<"x">>>> },
           {DownstreamBadKeyAlts})
UpstreamCoreRows ==
    RowsOf(GoodUpstreamRow,
           { <<1, <<"x">>>>, <<5, <<"5", " ", "M", "H", "z">>>>,
             <<7, <<"x", " ">> \o StrdBmV>> },
           {})

SeqsUpTo(S, n) == UNION {[1..k -> S] : k \in 0..n}

\* tables of fewer than two rows, and two leading rows (plain, or of the
\* decoded width) followed by one row of rows or by up to n rows of core
TablesOf(good, rows, core, n) ==
    { <<>>, <<HeaderRow>>, <<good>> }
    \cup { lead \o data : lead \in { <<HeaderRow, HeaderRow>>, <<good, good>> },
                          data \in SeqsUpTo(core, n) \cup { <<r>> : r \in rows } }

GoodTable(good) == <<HeaderRow, HeaderRow, good>>

GoodStatsPage == << GoodTable(GoodNetworkRow) >>
GoodCmPage ==
    << <<HeaderRow>>, GoodTable(GoodDownstreamRow), GoodTable(GoodUpstreamRow) >>

StatsPages(n) ==
    { <<t>> : t \in TablesOf(GoodNetworkRow, NetworkRowSet, NetworkCoreRows, n) }
    \cup { <<>>, GoodStatsPage \o GoodCmPage }

CmDownstreamPages(n) ==
    { << <<HeaderRow>>, t, u >> :
        t \in TablesOf(GoodDownstreamRow, DownstreamRowSet, DownstreamCoreRows, n),
        u \in { GoodTable(GoodUpstreamRow) } }

CmUpstreamPages(n) ==
    { << <<HeaderRow>>, t, u >> :
        t \in { GoodTable(GoodDownstreamRow) },
        u \in TablesOf(GoodUpstreamRow, UpstreamRowSet, UpstreamCoreRows, n) }

CmPages(n) ==
    CmDownstreamPages(n) \cup CmUpstreamPages(n)
    \cup { <<>>, << <<HeaderRow>> >>,
           << <<HeaderRow>>, GoodTable(GoodDownstreamRow) >>,
           << <<>>, <<HeaderRow, HeaderRow>>, <<HeaderRow, HeaderRow>> >>,
           GoodCmPage \o GoodStatsPage }

\* one page varies over its whole family while the other is one of a few
DecodeDevices(n) ==
    { [stats |-> OkResp(s), cm |-> c] :
        s \in StatsPages(n), c \in {OkResp(GoodCmPage), TransportResp} }
    \cup { [stats |-> s, cm |-> OkResp(c)] :
        s \in {OkResp(GoodStatsPage), StatusResp(500)}, c \in CmPages(n) }

SmallDevices ==
    [stats : {OkResp(GoodStatsPage), OkResp(<<>>), ReadErrResp,
              StatusResp(500), TransportResp},
     cm : {OkResp(GoodCmPage), OkResp(<< <<HeaderRow>>, GoodTable(GoodDownstreamRow) >>),
           ReadErrResp, StatusResp(404), TransportResp}]

(***************************************************************************)
(* Exporter.fetch and the instrumented round tripper.                      *)
(* promhttp.InstrumentRoundTripperCounter counts a request under its       *)
(* status code only when the round trip returned a response.               *)
(***************************************************************************)
StatusOK(code) == code >= 200 /\ code < 300

FetchErr == [err |-> TRUE, resp |-> TransportResp]

\* what client.Get adds to clientRequestCount
RoundTrip(count, resp) ==
    IF resp.kind = "transport" THEN count
    ELSE [count EXCEPT ![resp.code] = @ + 1]

\* (body, err) and the request counter after fetch(filename)
fetch(url, count, resp) ==
    IF url # "valid" THEN [body |-> FetchErr, count |-> count]
    ELSE IF resp.kind = "transport"
    THEN [body |-> FetchErr, count |-> RoundTrip(count, resp)]
    ELSE IF ~StatusOK(resp.code)
    THEN [body |-> FetchErr, count |-> RoundTrip(count, resp)]
    ELSE [body |-> [err |-> FALSE, resp |-> resp], count |-> RoundTrip(count, resp)]

\* what scrape does with one page's (body, err)
scrapePage(b, file) ==
    IF b.err THEN NoResult
    ELSE IF b.resp.kind = "readerr" THEN Result(EmptyBag, 1, FALSE)
    ELSE IF file = "statsifc.html" THEN scrapeStats(b.resp.tables)
    ELSE scrapeCm(b.resp.tables)

\* the value scrape returns
ScrapeUp == 1

Label(s) == << <<s>> >>

\* totalScrapes, parseFailures.Collect, clientRequestCount.Collect
SelfMetrics(scrapes, failures, requests) ==
    SetToBag(
      { Metric("tc4400_exporter_scrapes_total", Float64(scrapes), <<>>) }
      \cup { Metric("tc4400_exporter_parse_errors_total", Float64(failures[f]), Label(f)) :
               f \in {g \in Files : failures[g] > 0} }
      \cup { Metric("tc4400_exporter_client_requests_total", Float64(requests[c]),
                    <<Digits(c), <<"get">>>>) :
               c \in {k \in Codes : requests[k] > 0} })

(***************************************************************************)
(* Exporter.Collect, one call per process.                                 *)
(***************************************************************************)
Holding == {"scrape", "fetchStats", "scrapeStats", "fetchCm", "scrapeCm",
            "send", "unlock", "panic"}

PollInit(devices, urls) ==
    /\ baseURL \in urls
    /\ device \in devices
    /\ mutex = 0
    /\ pc = [p \in Procs |-> "idle"]
    /\ body = [p \in Procs |-> FetchErr]
    /\ ch = [p \in Procs |-> EmptyBag]
    /\ totalScrapes = 0
    /\ parseFailures = [f \in Files |-> 0]
    /\ clientRequestCount = [c \in Codes |-> 0]

\* the registry calls Collect with a channel of its own
Collect(p, cap) ==
    /\ pc[p] = "idle"
    /\ totalScrapes + Cardinality({q \in Procs : pc[q] \in {"lock", "scrape"}}) < cap
    /\ pc' = [pc EXCEPT ![p] = "lock"]
    /\ ch' = [ch EXCEPT ![p] = EmptyBag]
    /\ UNCHANGED <<baseURL, device, mutex, body, totalScrapes, parseFailures,
                   clientRequestCount, parseVars>>

\* Lock that does not wait for the mutex to be free
LockNoWait(p) ==
    /\ pc[p] = "lock"
    /\ mutex' = p
    /\ pc' = [pc EXCEPT ![p] = "scrape"]
    /\ UNCHANGED <<baseURL, device, body, ch, totalScrapes, parseFailures,
                   clientRequestCount, parseVars>>

\* e.mutex.Lock()
Lock(p) ==
    /\ pc[p] = "lock"
    /\ mutex = 0
    /\ mutex' = p
    /\ pc' = [pc EXCEPT ![p] = "scrape"]
    /\ UNCHANGED <<baseURL, device, body, ch, totalScrapes, parseFailures,
                   clientRequestCount, parseVars>>

\* e.totalScrapes.Inc()
ScrapeBegin(p) ==
    /\ pc[p] = "scrape"
    /\ totalScrapes' = totalScrapes + 1
    /\ pc' = [pc EXCEPT ![p] = "fetchStats"]
    /\ UNCHANGED <<baseURL, device, mutex, body, ch, parseFailures,
                   clientRequestCount, parseVars>>

Fetch(p, at, resp, next) ==
    /\ pc[p] = at
    /\ LET f == fetch(baseURL, clientRequestCount, resp)
       IN  /\ body' = [body EXCEPT ![p] = f.body]
           /\ clientRequestCount' = f.count
    /\ pc' = [pc EXCEPT ![p] = next]
    /\ UNCHANGED <<baseURL, device, mutex, ch, totalScrapes, parseFailures, parseVars>>

ScrapePage(p, at, file, next) ==
    /\ pc[p] = at
    /\ LET r == scrapePage(body[p], file)
       IN  /\ ch' = [ch EXCEPT ![p] = @ (+) r.obs]
           /\ parseFailures' = [parseFailures EXCEPT ![file] = @ + r.fails]
           /\ pc' = [pc EXCEPT ![p] = IF r.panic THEN "panic" ELSE next]
    /\ UNCHANGED <<baseURL, device, mutex, body, totalScrapes,
                   clientRequestCount, parseVars>>

\* body, err := e.fetch("statsifc.html")
FetchStats(p) == Fetch(p, "fetchStats", device.stats, "scrapeStats")

\* ScrapeStats that returns from scrape when the fetch failed
ScrapeStatsReturnsOnError(p) ==
    IF body[p].err
    THEN /\ pc[p] = "scrapeStats"
         /\ pc' = [pc EXCEPT ![p] = "send"]
         /\ UNCHANGED <<baseURL, device, mutex, body, ch, totalScrapes,
                        parseFailures, clientRequestCount, parseVars>>
    ELSE ScrapePage(p, "scrapeStats", "statsifc.html", "fetchCm")

\* networkMetrics - statsifc.html
ScrapeStats(p) ==
    ScrapePage(p, "scrapeStats", "statsifc.html", "fetchCm")

\* body, err = e.fetch("cmconnectionstatus.html")
FetchCm(p) == Fetch(p, "fetchCm", device.cm, "scrapeCm")

\* upstreamChannelMetrics, downstreamChannelMetrics - cmconnectionstatus.html
ScrapeCm(p) ==
    ScrapePage(p, "scrapeCm", "cmconnectionstatus.html", "send")

\* ch <- up, and the exporter's own metrics
SendSelf(p) ==
    /\ pc[p] = "send"
    /\ ch' = [ch EXCEPT ![p] =
                @ (+) SetToBag({Metric(targetUpMetric, Float64(ScrapeUp), <<>>)})
                  (+) SelfMetrics(totalScrapes, parseFailures, clientRequestCount)]
    /\ pc' = [pc EXCEPT ![p] = "unlock"]
    /\ UNCHANGED <<baseURL, device, mutex, body, totalScrapes, parseFailures,
                   clientRequestCount, parseVars>>

\* defer e.mutex.Unlock(): also runs when scrape panics
Unlock(p) ==
    /\ pc[p] \in {"unlock", "panic"}
    /\ mutex' = 0
    /\ pc' = [pc EXCEPT ![p] = "idle"]
    /\ UNCHANGED <<baseURL, device, body, ch, totalScrapes, parseFailures,
                   clientRequestCount, parseVars>>

Poll(p) ==
    \/ Lock(p)
    \/ ScrapeBegin(p)
    \/ FetchStats(p)
    \/ ScrapeStats(p)
    \/ FetchCm(p)
    \/ ScrapeCm(p)
    \/ SendSelf(p)
    \/ Unlock(p)

ParseIdle ==
    /\ doc = Skeleton
    /\ tables = <<>>
    /\ found = <<>>
    /\ ppc = "start"

PollIdle == PollInit({[stats |-> TransportResp, cm |-> TransportResp]}, {"valid"})

\* concurrent Collect calls against a modem in one of a few conditions
Init == ParseIdle /\ PollInit(SmallDevices, {"valid", "invalid"})

Next == \E p \in Procs : Collect(p, MaxPolls) \/ Poll(p)

Spec == Init /\ [][Next]_vars

\* a step of the Collect call that holds the mutex.  Between Lock and
\* Unlock the call always has a step to take, and each such step moves its
\* pc, so the steps are told by pc alone.
Advance(p) ==
    /\ pc[p] \in Holding
    /\ pc' \in [Procs -> Holding \cup {"idle", "lock"}]
    /\ pc'[p] # pc[p]

\* the holder of the mutex runs to its Unlock (every fetch ends, by the
\* client's timeout at the latest), and a Collect call waiting in Lock gets
\* the mutex once it is free often enough (sync.Mutex hands a starving
\* waiter the lock)
Fairness ==
    \A p \in Procs :
        /\ WF_pc(Advance(p))
        /\ SF_vars(Lock(p))

FairSpec == Spec /\ Fairness

\* one Collect call against every page of the decoders' families
DecodeInit == ParseIdle /\ PollInit(DecodeDevices(MaxData), {"valid"})

DecodeNext == Collect(1, 1) \/ Poll(1)

DecodeSpec == DecodeInit /\ [][DecodeNext]_vars

(***************************************************************************)
(* The documents parseTables is applied to.                                *)
(***************************************************************************)
TextData == { <<"a">>, <<" ">> }

\* what the HTML tree construction lets a parent hold
Allowed(parentTag, tag) ==
    CASE parentTag \in {"body", "div", "td"} -> tag \in {"div", "table", "#text"}
      [] parentTag = "table" -> tag = "tbody"
      [] parentTag = "tbody" -> tag = "tr"
      [] parentTag = "tr"    -> tag = "td"
      [] OTHER               -> FALSE

\* every way of adding one more node, in document order, to a document
Extensions(d, minDepth) ==
    { Append(d, Node(tag, depth, data)) :
        <<tag, depth, data>> \in
          { <<t, dp, dt>> \in
              {"div", "table", "tbody", "tr", "td", "#text"}
                \X (minDepth..(d[Len(d)].depth + 1))
                \X ({<<>>} \cup TextData) :
                /\ Allowed(d[Max({j \in 1..Len(d) : d[j].depth = dp - 1})].tag, t)
                /\ (t = "#text") = (dt # <<>>) } }

RECURSIVE Grow(_, _, _)
Grow(ds, k, minDepth) ==
    IF k = 0 THEN ds
    ELSE ds \cup Grow(UNION {Extensions(d, minDepth) : d \in ds}, k - 1, minDepth)

\* body with up to n nodes below it
GeneralDocs(n) == Grow({Skeleton}, n, 3)

\* body > table > tbody > tr > td, with up to n nodes inside the cell
CellSkeleton ==
    Skeleton \o << Node("table", 3, <<>>), Node("tbody", 4, <<>>),
                   Node("tr", 5, <<>>), Node("td", 6, <<>>) >>

CellDocs(n) == Grow({CellSkeleton}, n, 7)

(***************************************************************************)
(* The extractor applied to a document.                                    *)
(***************************************************************************)
ParseInit ==
    /\ PollIdle
    /\ doc \in GeneralDocs(MaxNodes) \cup CellDocs(MaxCell)
    /\ tables = <<>>
    /\ found = <<>>
    /\ ppc = "start"

ParseTables ==
    /\ ppc = "start"
    /\ tables' = parseTables(doc)
    /\ found' = TableWalk(doc, DocNode, <<>>)
    /\ ppc' = "done"
    /\ UNCHANGED <<doc, pollVars>>

ParseNext == ParseTables

ParseSpec == ParseInit /\ [][ParseNext]_vars

(***************************************************************************)
(* What the extractor is specified to return.                              *)
(***************************************************************************)
\* every table element of the document, in document order
RECURSIVE TableNodesFrom(_, _)
TableNodesFrom(d, n) ==
    IF n > Len(d) THEN <<>>
    ELSE (IF d[n].tag = "table" THEN <<n>> ELSE <<>>) \o TableNodesFrom(d, n + 1)

AllTableNodes(d) == TableNodesFrom(d, 1)

\* the text nodes below a cell, concatenated in document order
RECURSIVE ConcatText(_, _)
ConcatText(d, ns) ==
    IF ns = <<>> THEN <<>>
    ELSE (IF IsText(d, Head(ns)) THEN d[Head(ns)].data ELSE <<>>)
         \o ConcatText(d, Tail(ns))

AllText(d, cellNode) == TrimSpace(ConcatText(d, Descendants(d, cellNode)))

\* C1: parseTables returns one table per table element of the document, in
\* document order, whatever the nesting.
C1_AllTablesInOrder ==
    ppc = "done" =>
        /\ found = AllTableNodes(doc)
        /\ Len(tables) = Len(AllTableNodes(doc))

\* C2: every cell string is the trimmed concatenation of all the text nodes
\* below the cell, in document order.
C2_CellIsAllText ==
    ppc = "done" =>
        \A k \in 1..Len(found) :
            LET rows == RowNodes(doc, found[k])
            IN  \A r \in 1..Len(rows) :
                    LET cells == CellNodes(doc, rows[r])
                    IN  \A c \in 1..Len(cells) :
                            tables[k][r][c] = AllText(doc, cells[c])

(***************************************************************************)
(* What scrape and Collect are specified to do, stated without the         *)
(* decoders above.                                                         *)
(***************************************************************************)
NetworkNames == Range(networkMetrics)
DownstreamNames == Range(downstreamChannelMetrics)
UpstreamNames == Range(upstreamChannelMetrics)
ChannelNames == DownstreamNames \cup UpstreamNames

\* the metrics of a bag that carry one of the names
Named(b, names) == [m \in {x \in DOMAIN b : x.name \in names} |-> b[m]]

\* the Collect call has finished the page, whatever came of it
StatsScraped(p) == pc[p] \in {"fetchCm", "scrapeCm", "send", "unlock", "panic"}
CmScraped(p) == pc[p] \in {"send", "unlock", "panic"}

\* the page was fetched and parsed into tables
Parsed(resp) == baseURL = "valid" /\ resp.kind = "ok"

StatsBelowMin(T) == Len(T) = 0 \/ Len(T[1]) <= 1
CmBelowMin(T) == Len(T) <= 2 \/ Len(T[2]) <= 1 \/ Len(T[3]) <= 1

LeadOf(t) == SubSeq(t, 1, 2)
DataOf(t) == SubSeq(t, 3, Len(t))

\* table t without the data rows that Drop holds of
Without(t, Drop(_)) == LeadOf(t) \o SelectSeq(DataOf(t), LAMBDA r : ~Drop(r))
Dropped(t, Drop(_)) == Len(SelectSeq(DataOf(t), Drop))

IsInteger(s) ==
    LET d == IF s # <<>> /\ s[1] \in {"+", "-"} THEN Tail(s) ELSE s
    IN  d # <<>> /\ \A k \in 1..Len(d) : d[k] \in Range(DigitChars)

IsDecimal(s) ==
    LET d == IF s # <<>> /\ s[1] \in {"+", "-"} THEN Tail(s) ELSE s
    IN  /\ \A k \in 1..Len(d) : d[k] \in Range(DigitChars) \cup {"."}
        /\ \E k \in 1..Len(d) : d[k] \in Range(DigitChars)
        /\ Cardinality({k \in 1..Len(d) : d[k] = "."}) <= 1

NetworkWrong(row) == Len(row) # 9
DownstreamWrong(row) == Len(row) # 13
UpstreamWrong(row) == Len(row) # 9

DownstreamBadKey(row) == Len(row) = 13 /\ ~IsInteger(row[2])
UpstreamBadKey(row) == Len(row) = 9 /\ ~IsInteger(row[2])

\* C4: a row whose cell count differs from the table's required count (9,
\* 13, 9) yields no metric and no parse failure, and the rows after it are
\* still decoded: a poll sends what it would send, and counts what it would
\* count, had those rows not been in the tables; a table all of whose rows
\* have another width yields nothing.
C4_WrongWidthRowsSkipped ==
    /\ (StatsScraped(1) /\ Parsed(device.stats) /\ ~StatsBelowMin(device.stats.tables)) =>
          LET T == device.stats.tables
              r == scrapeStats([T EXCEPT ![1] = Without(T[1], NetworkWrong)])
          IN  /\ Named(ch[1], NetworkNames) = r.obs
              /\ parseFailures["statsifc.html"] = r.fails
              /\ (\A k \in 1..Len(DataOf(T[1])) : NetworkWrong(DataOf(T[1])[k]))
                    => /\ BagCardinality(Named(ch[1], NetworkNames)) = 0
                       /\ parseFailures["statsifc.html"] = 0
    /\ (CmScraped(1) /\ Parsed(device.cm) /\ ~CmBelowMin(device.cm.tables)) =>
          LET T == device.cm.tables
              r == scrapeCm([T EXCEPT ![2] = Without(T[2], DownstreamWrong),
                                      ![3] = Without(T[3], UpstreamWrong)])
          IN  /\ Named(ch[1], ChannelNames) = r.obs
              /\ parseFailures["cmconnectionstatus.html"] = r.fails
              /\ (\A k \in 1..Len(DataOf(T[2])) : DownstreamWrong(DataOf(T[2])[k]))
                    => BagCardinality(Named(ch[1], DownstreamNames)) = 0
              /\ (\A k \in 1..Len(DataOf(T[3])) : UpstreamWrong(DataOf(T[3])[k]))
                    => BagCardinality(Named(ch[1], UpstreamNames)) = 0

\* a poll decoded a downstream table whose first data row is too short and
\* whose second is well-formed
C4_Witness ==
    /\ pc[1] = "unlock"
    /\ Parsed(device.cm)
    /\ Len(device.cm.tables) = 3
    /\ Len(device.cm.tables[2]) = 4
    /\ Len(device.cm.tables[2][3]) = 12
    /\ device.cm.tables[2][4] = GoodDownstreamRow
    /\ BagCardinality(Named(ch[1], DownstreamNames)) = 11
    /\ parseFailures["cmconnectionstatus.html"] = 0

\* C5: a downstream or upstream row of the required width whose channel
\* column is no base-10 integer yields no metric whatever its other cells
\* hold and counts one parse failure of cmconnectionstatus.html, and the
\* rows after it are still decoded: a poll sends what it would send had
\* those rows not been in the tables, and counts one failure more per such
\* row.
C5_BadKeyRowDropped ==
    (CmScraped(1) /\ Parsed(device.cm) /\ ~CmBelowMin(device.cm.tables)) =>
        LET T == device.cm.tables
            r == scrapeCm([T EXCEPT ![2] = Without(T[2], DownstreamBadKey),
                                    ![3] = Without(T[3], UpstreamBadKey)])
            n == Dropped(T[2], DownstreamBadKey) + Dropped(T[3], UpstreamBadKey)
        IN  /\ Named(ch[1], ChannelNames) = r.obs
            /\ parseFailures["cmconnectionstatus.html"] = r.fails + n
            /\ (\A k \in 1..Len(DataOf(T[2])) :
                    DownstreamWrong(DataOf(T[2])[k]) \/ DownstreamBadKey(DataOf(T[2])[k]))
                  => BagCardinality(Named(ch[1], DownstreamNames)) = 0
            /\ (/\ \A k \in 1..Len(DataOf(T[2])) :
                      DownstreamWrong(DataOf(T[2])[k]) \/ DownstreamBadKey(DataOf(T[2])[k])
                /\ \A k \in 1..Len(DataOf(T[3])) :
                      UpstreamWrong(DataOf(T[3])[k]) \/ UpstreamBadKey(DataOf(T[3])[k]))
                  => parseFailures["cmconnectionstatus.html"] = n

\* a poll decoded an upstream table whose first data row has a bad channel
\* and whose second is well-formed
C5_Witness ==
    /\ pc[1] = "unlock"
    /\ Parsed(device.cm)
    /\ Len(device.cm.tables) = 3
    /\ Len(device.cm.tables[3]) = 4
    /\ UpstreamBadKey(device.cm.tables[3][3])
    /\ device.cm.tables[3][4] = GoodUpstreamRow
    /\ BagCardinality(Named(ch[1], UpstreamNames)) = 7
    /\ parseFailures["cmconnectionstatus.html"] = 1

\* whether a cell fails the decode rule of its column
IntegerFails(cell) == ~IsInteger(cell)
HertzFails(cell) ==
    \/ Len(Split(cell)) # 2
    \/ Split(cell)[2] \notin {StrHz, StrkHz}
    \/ ~IsInteger(Split(cell)[1])
UnitFloatFails(cell, unit) ==
    \/ Len(Split(cell)) # 2
    \/ Split(cell)[2] # unit
    \/ ~IsDecimal(Split(cell)[1])

\* the columns (from 0) of a row of the required width that fail their rule
DownstreamFailing(row) ==
    {i \in {10, 11, 12} : IntegerFails(row[i + 1])}
    \cup {i \in {5, 6} : HertzFails(row[i + 1])}
    \cup {i \in {7} : UnitFloatFails(row[i + 1], StrdB)}
    \cup {i \in {8} : UnitFloatFails(row[i + 1], StrdBmV)}

UpstreamFailing(row) ==
    {i \in {5, 6} : HertzFails(row[i + 1])}
    \cup {i \in {7} : UnitFloatFails(row[i + 1], StrdBmV)}

RECURSIVE Sum(_)
Sum(s) == IF s = <<>> THEN 0 ELSE Head(s) + Sum(Tail(s))

\* the failing cells of the data rows of the required width whose key decodes
FailingCells(t, Wrong(_), BadKey(_), Failing(_)) ==
    Sum([k \in 1..Len(DataOf(t)) |->
            LET row == DataOf(t)[k]
            IN  IF Wrong(row) \/ BadKey(row) THEN 0 ELSE Cardinality(Failing(row))])

DecodedRows(t, Wrong(_), BadKey(_)) ==
    Len(SelectSeq(DataOf(t), LAMBDA r : ~Wrong(r) /\ ~BadKey(r)))

\* C3: in a row of the required width whose key decodes, every cell that
\* fails its decode rule counts one parse failure of the page and sends no
\* metric for its column.
C3_EveryFailingCellCounted ==
    (CmScraped(1) /\ Parsed(device.cm) /\ ~CmBelowMin(device.cm.tables)) =>
        LET T == device.cm.tables
            keys == Dropped(T[2], DownstreamBadKey) + Dropped(T[3], UpstreamBadKey)
            cells == FailingCells(T[2], DownstreamWrong, DownstreamBadKey, DownstreamFailing)
                     + FailingCells(T[3], UpstreamWrong, UpstreamBadKey, UpstreamFailing)
        IN  /\ parseFailures["cmconnectionstatus.html"] = keys + cells
            /\ BagCardinality(Named(ch[1], ChannelNames)) =
                  11 * DecodedRows(T[2], DownstreamWrong, DownstreamBadKey)
                  + 7 * DecodedRows(T[3], UpstreamWrong, UpstreamBadKey)
                  - cells

\* C8: a fetched and parsed page below its minimum (statsifc.html: no table,
\* or a first table of fewer than 2 rows; cmconnectionstatus.html: fewer
\* than 3 tables, or a second or third table of fewer than 2 rows) counts
\* exactly one parse failure of the page and sends no metric of the page.
C8_SmallPageSkippedWhole ==
    /\ (StatsScraped(1) /\ Parsed(device.stats) /\ StatsBelowMin(device.stats.tables)) =>
          /\ parseFailures["statsifc.html"] = 1
          /\ BagCardinality(Named(ch[1], NetworkNames)) = 0
    /\ (CmScraped(1) /\ Parsed(device.cm) /\ CmBelowMin(device.cm.tables)) =>
          /\ parseFailures["cmconnectionstatus.html"] = 1
          /\ BagCardinality(Named(ch[1], ChannelNames)) = 0

\* a poll met a page with a well-formed downstream table and no upstream
\* table
C8_Witness ==
    /\ pc[1] = "unlock"
    /\ Parsed(device.cm)
    /\ device.cm.tables = << <<HeaderRow>>, GoodTable(GoodDownstreamRow) >>
    /\ parseFailures["cmconnectionstatus.html"] = 1

\* table t with its two leading rows emptied
Blanked(t) == << <<>>, <<>> >> \o DataOf(t)

\* C10: no slice t[2:] and no cell access row[i] of scrape is out of range,
\* whatever the tables; a table of exactly 2 rows passes the check and yields
\* no metric and no parse failure; and the two leading rows of a decoded
\* table are never decoded, even when they have the required width: a poll
\* sends and counts what it would with those rows emptied.
C10_NoPanicLeadingRowsSkipped ==
    /\ \A p \in Procs : pc[p] # "panic"
    /\ (StatsScraped(1) /\ Parsed(device.stats) /\ ~StatsBelowMin(device.stats.tables)) =>
          LET T == device.stats.tables
              r == scrapeStats([T EXCEPT ![1] = Blanked(T[1])])
          IN  /\ Named(ch[1], NetworkNames) = r.obs
              /\ parseFailures["statsifc.html"] = r.fails
              /\ Len(T[1]) = 2 =>
                    /\ BagCardinality(Named(ch[1], NetworkNames)) = 0
                    /\ parseFailures["statsifc.html"] = 0
    /\ (CmScraped(1) /\ Parsed(device.cm) /\ ~CmBelowMin(device.cm.tables)) =>
          LET T == device.cm.tables
              r == scrapeCm([T EXCEPT ![2] = Blanked(T[2]), ![3] = Blanked(T[3])])
          IN  /\ Named(ch[1], ChannelNames) = r.obs
              /\ parseFailures["cmconnectionstatus.html"] = r.fails
              /\ Len(T[2]) = 2 => BagCardinality(Named(ch[1], DownstreamNames)) = 0
              /\ (Len(T[2]) = 2 /\ Len(T[3]) = 2) =>
                    parseFailures["cmconnectionstatus.html"] = 0

\* a poll decoded a page whose downstream table is two rows of the required
\* width and nothing else
C10_Witness ==
    /\ pc[1] = "unlock"
    /\ Parsed(device.cm)
    /\ Len(device.cm.tables) = 3
    /\ device.cm.tables[2] = <<GoodDownstreamRow, GoodDownstreamRow>>
    /\ BagCardinality(Named(ch[1], DownstreamNames)) = 0
    /\ BagCardinality(Named(ch[1], UpstreamNames)) = 7

UpOne == Metric(targetUpMetric, Float64(1), <<>>)

\* what the pages that were fetched and parsed decode to
PageMetrics ==
    (IF Parsed(device.stats) THEN scrapeStats(device.stats.tables).obs ELSE EmptyBag)
    (+) (IF Parsed(device.cm) THEN scrapeCm(device.cm.tables).obs ELSE EmptyBag)

C9_FetchErrorCounted ==
    \A p \in Procs :
        (/\ pc[p] = "unlock"
         /\ baseURL = "valid"
         /\ \/ device.stats.kind \in {"transport", "status"}
            \/ device.cm.kind \in {"transport", "status"}) =>
            \/ \E f \in Files : parseFailures[f] > 0
            \/ \E c \in Codes : clientRequestCount[c] > 0

\* C7: at most one poll is between its start and its end at any time; every
\* fetch, counter update and emission is a step of the Collect call that
\* holds the mutex, so a waiting call does none of them; and every Collect
\* call waiting in Lock gets to run.
C7_PollsSerialized ==
    /\ [](\A p, q \in Procs : (pc[p] \in Holding /\ pc[q] \in Holding) => p = q)
    /\ [](\A p \in Procs : pc[p] \in Holding => mutex = p)
    /\ [](\A p \in Procs : pc[p] = "lock" => ch[p] = EmptyBag)
    /\ [][ (\/ <<body, totalScrapes, parseFailures, clientRequestCount>>'
                 # <<body, totalScrapes, parseFailures, clientRequestCount>>
             \/ \E q \in Procs : ch'[q] # ch[q] /\ ch'[q] # EmptyBag)
           => \E p \in Procs : /\ mutex = p
                               /\ pc[p] \in Holding
                               /\ pc'[p] # pc[p]
                               /\ \A q \in Procs \ {p} :
                                     /\ pc'[q] = pc[q]
                                     /\ ch'[q] = ch[q]
                                     /\ body'[q] = body[q] ]_vars
    /\ \A p \in Procs : (pc[p] = "lock") ~> (pc[p] = "scrape" /\ mutex = p)

\* one Collect call waits in Lock while another is between its two fetches
C7_Witness ==
    \E p, q \in Procs :
        /\ pc[p] = "fetchCm"
        /\ pc[q] = "lock"
        /\ mutex = p

====
